---- MODULE Spec2Model ----
(***************************************************************************)
(* Object model of the z-score normalization Batch algorithm               *)
(* (zscore_v2.h: BatchImpl, Batch<algorithmFPType, method>) and of the     *)
(* Xavier initializer task descriptor                                      *)
(* (xavier_initializer_task_descriptor.cpp).                               *)
(*                                                                         *)
(* Objects are identified by their address: an algorithm instance by its   *)
(* index in algs, a Result by its index in heap, a data table, an engine, a *)
(* layer and a tensor by a positive number.  NULL is the null pointer and  *)
(* the empty shared pointer.  `&input` and `&parameter` of instance i are  *)
(* the sub-objects of instance i, so both addresses are written i.         *)
(***************************************************************************)
EXTENDS Integers, Sequences, FiniteSets

VARIABLES
    algs,     \* the constructed Batch instances, in order of construction
    heap,     \* the Result objects created so far (new ResultType())
    origin,   \* origin[j]: the instance j was cloned from, 0 if constructed
    ret,      \* what the last call on an instance returned
    calls,    \* how many steps have been taken so far
    envCpu,   \* environment: the detected CPU tier
    xpar,     \* xavier Parameter: engine and layer shared pointers
    xres,     \* xavier Result: the tensor stored under initializers::value
    td        \* the last XavierInitializerTaskDescriptor built

vars == <<algs, heap, origin, ret, calls, envCpu, xpar, xres, td>>

batchVars == <<algs, heap, origin, ret, calls, envCpu>>

tdVars == <<xpar, xres, td>>

----------------------------------------------------------------------------
(* Bounds *)

MaxCalls == 5

MaxInst == 3

MaxRes == 4

MaxObj == 2

NULL == 0

----------------------------------------------------------------------------
(* Value domains *)

\* The instantiations Batch<algorithmFPType, method> that are modelled.
Types ==
    { [fp |-> "float", method |-> "defaultDense"],
      [fp |-> "double", method |-> "sumDense"] }

CpuTiers == {"sse2", "avx2"}

Data == {1, 2}

\* The number of rows of data table d; tables 1 and 2 differ in size.
DataRows(d) == 1 + (d % 2)

ResultsToCompute == {0, 1}

NoShape == [rows |-> 0, rtc |-> 0, fp |-> "none", method |-> "none"]

NoValue == [data |-> 0, rtc |-> 0, fp |-> "none", method |-> "none"]

\* A Result as `new ResultType()` leaves it: nothing allocated, nothing written.
EmptyResult(by) == [shape |-> NoShape, value |-> NoValue, by |-> by]

DefaultInput == [data |-> NULL]

DefaultParameter == [resultsToCompute |-> 0]

\* An instance before BatchImpl::initialize and Batch::initialize ran: the
\* members are default-constructed and the cached pointers of the
\* Analysis<batch> base are null.
BaseObject(t) ==
    [fp |-> t.fp, method |-> t.method,
     input |-> DefaultInput, parameter |-> DefaultParameter,
     _result |-> NULL, _res |-> NULL, _in |-> NULL, _par |-> NULL,
     _ac |-> NULL]

----------------------------------------------------------------------------
(* zscore_v2.h, translated method by method.  `self` is the address of the  *)
(* instance a method runs on.                                              *)

\* BatchImpl::initialize: _result = ResultPtr(new ResultType()); _in = &input.
BatchImpl_initialize(a, self, newRes) ==
    [a EXCEPT !._result = newRes, !._in = self]

\* __DAAL_ALGORITHM_CONTAINER(batch, BatchContainer, fp, method)(&_env): the
\* container created for one instance, specialised by precision, method and
\* the CPU tier of the environment.
NewContainer(self, fp, method, cpu) ==
    [id |-> self, fp |-> fp, method |-> method, cpu |-> cpu]

\* Batch::initialize: _ac = new container(&_env); _par = &parameter.
Batch_initialize(a, self, cpu) ==
    [a EXCEPT !._ac = NewContainer(self, a.fp, a.method, cpu), !._par = self]

\* Batch(): BatchImpl() { initialize(); } then Batch() { initialize(); }.
Batch_ctor(t, self, newRes, cpu) ==
    Batch_initialize(BatchImpl_initialize(BaseObject(t), self, newRes), self, cpu)

\* Faulty variant: the copy shares the source's Result handle and cached pointer.
Batch_copy_SharesResult(other, self, newRes, cpu) ==
    Batch_initialize(
        [BaseObject(other) EXCEPT !.input = other.input,
                                  !.parameter = other.parameter,
                                  !._result = other._result,
                                  !._res = other._res,
                                  !._in = self],
        self, cpu)

\* Faulty variant: the copy drops parameter(other.parameter).
Batch_copy_DefaultParameter(other, self, newRes, cpu) ==
    Batch_initialize(
        BatchImpl_initialize([BaseObject(other) EXCEPT !.input = other.input],
                             self, newRes),
        self, cpu)

\* Faulty variant: the copy keeps the source's container and cached pointers (a
\* member-wise copy of the base, no initialize()).
Batch_copy_NoInitialize(other, self, newRes, cpu) ==
    [BaseObject(other) EXCEPT !.input = other.input,
                              !.parameter = other.parameter,
                              !._result = newRes,
                              !._in = other._in,
                              !._par = other._par,
                              !._ac = other._ac]

\* Batch(const Batch & other) : BatchImpl(other), parameter(other.parameter)
\* { initialize(); } with BatchImpl(const BatchImpl & other) :
\* input(other.input) { initialize(); }.  The Analysis<batch> base is
\* default-constructed, so no cached pointer is copied.
Batch_copy(other, self, newRes, cpu) ==
    Batch_initialize(
        BatchImpl_initialize(
            [BaseObject(other) EXCEPT !.input = other.input,
                                      !.parameter = other.parameter],
            self, newRes),
        self, cpu)

\* BatchImpl::getResult: return _result.
getResult(a) == a._result

\* Batch::getParameter: return &parameter.
getParameter(a, self) == self

\* Batch::getMethod: return (int)method.
getMethod(a) == a.method

\* Faulty variant: no DAAL_CHECK(result, ErrorNullResult).
setResult_NoNullCheck(a, result) ==
    [status |-> "OK", alg |-> [a EXCEPT !._result = result, !._res = result]]

\* Faulty variant: the cached pointer is not refreshed (_res = _result.get() dropped).
setResult_StaleRes(a, result) ==
    IF result = NULL
    THEN [status |-> "ErrorNullResult", alg |-> a]
    ELSE [status |-> "OK", alg |-> [a EXCEPT !._result = result]]

\* BatchImpl::setResult.
setResult(a, result) ==
    IF result = NULL
    THEN [status |-> "ErrorNullResult", alg |-> a]
    ELSE [status |-> "OK",
          alg |-> [a EXCEPT !._result = result, !._res = result]]

\* The shape Result::allocate gives a Result for this input, parameter,
\* precision and method.
NeededShape(input, parameter, fp, method) ==
    [rows |-> DataRows(input.data), rtc |-> parameter.resultsToCompute,
     fp |-> fp, method |-> method]

\* Result::allocate<fp>(input, parameter, method): materializes storage of the
\* needed shape, or fails and leaves the Result as it was.
Result_allocate(res, input, parameter, fp, method, mem) ==
    IF mem
    THEN [status |-> "OK",
          result |-> [res EXCEPT
                        !.shape = NeededShape(input, parameter, fp, method),
                        !.value = NoValue]]
    ELSE [status |-> "AllocationFailure", result |-> res]

\* Faulty variant: the Status of allocate is dropped.
allocateResult_DropsStatus(a, hp, mem) ==
    LET s == Result_allocate(hp[a._result], a.input, a.parameter,
                             a.fp, a.method, mem)
    IN [status |-> "OK",
        alg |-> [a EXCEPT !._res = a._result],
        heap |-> [hp EXCEPT ![a._result] = s.result]]

\* Faulty variant: allocate is given the default method, not the instance's.
allocateResult_WrongMethod(a, hp, mem) ==
    LET s == Result_allocate(hp[a._result], a.input, a.parameter,
                             a.fp, "defaultDense", mem)
    IN [status |-> s.status,
        alg |-> [a EXCEPT !._res = a._result],
        heap |-> [hp EXCEPT ![a._result] = s.result]]

\* Faulty variant: allocation goes to a brand-new Result that replaces the handle.
allocateResult_ReplacesHandle(a, hp, mem) ==
    IF Len(hp) < MaxRes
    THEN LET n == Len(hp) + 1
             s == Result_allocate(EmptyResult("alg"), a.input, a.parameter,
                                  a.fp, a.method, mem)
         IN [status |-> s.status,
             alg |-> [a EXCEPT !._result = n, !._res = n],
             heap |-> Append(hp, s.result)]
    ELSE LET s == Result_allocate(hp[a._result], a.input, a.parameter,
                                  a.fp, a.method, mem)
         IN [status |-> s.status,
             alg |-> [a EXCEPT !._res = a._result],
             heap |-> [hp EXCEPT ![a._result] = s.result]]

\* Batch::allocateResult: s = _result->allocate<fp>(&input, &parameter,
\* method); _res = _result.get(); return s.
allocateResult(a, hp, mem) ==
    LET s == Result_allocate(hp[a._result], a.input, a.parameter,
                             a.fp, a.method, mem)
    IN [status |-> s.status,
        alg |-> [a EXCEPT !._res = a._result],
        heap |-> [hp EXCEPT ![a._result] = s.result]]

----------------------------------------------------------------------------
(* Analysis<batch>::compute and BatchContainer::compute, which zscore_v2.h  *)
(* declares or inherits but does not define.                               *)

\* Input/Parameter validation: the data table must be set.
ValidInput(a) == a.input.data # NULL

\* Is the instance's Result not yet allocated for the current input,
\* parameter and method.
ResultNeedsAllocation(a, hp) ==
    hp[a._result].shape # NeededShape(a.input, a.parameter, a.fp, a.method)

\* What the kernel of container ac writes for this input and parameter.
KernelValue(input, parameter, ac) ==
    [data |-> input.data, rtc |-> parameter.resultsToCompute,
     fp |-> ac.fp, method |-> ac.method]

\* BatchContainer::compute: runs the kernel on the instance's Input and
\* Parameter and writes the output into the Result the instance holds.  A
\* Result that was never allocated has no storage to write.
Container_compute(hp, a) ==
    IF hp[getResult(a)].shape = NoShape
    THEN [status |-> "KernelComputationError", heap |-> hp,
          kernel |-> "onUnallocated"]
    ELSE [status |-> "OK",
          heap |-> [hp EXCEPT ![getResult(a)].value =
                       KernelValue(a.input, a.parameter, a._ac)],
          kernel |-> "onAllocated"]

\* compute(): (a) validate, (b) allocate the Result if it is not allocated
\* for the current configuration, (c) run the container, (d) return Status.
Batch_compute(as, hp, i, mem) ==
    LET a == as[i]
    IN IF ~ValidInput(a)
       THEN [status |-> "InvalidInput", algs |-> as, heap |-> hp,
             kernel |-> "notInvoked"]
       ELSE LET al == IF ResultNeedsAllocation(a, hp)
                      THEN allocateResult(a, hp, mem)
                      ELSE [status |-> "OK", alg |-> a, heap |-> hp]
                as1 == [as EXCEPT ![i] = al.alg]
            IN IF al.status # "OK"
               THEN [status |-> al.status, algs |-> as1, heap |-> al.heap,
                     kernel |-> "notInvoked"]
               ELSE LET c == Container_compute(al.heap, al.alg)
                    IN [status |-> c.status, algs |-> as1, heap |-> c.heap,
                        kernel |-> c.kernel]

----------------------------------------------------------------------------
(* xavier_initializer_task_descriptor.cpp *)

NoDescriptor == [engine |-> NULL, layer |-> NULL, result |-> NULL, built |-> FALSE]

\* Faulty variant: the descriptor holds a copy of the engine, not the engine.
XavierInitializerTaskDescriptor_CopiesEngine(re, pa) ==
    [engine |-> IF pa.engine = NULL THEN NULL ELSE pa.engine + MaxObj,
     layer |-> pa.layer, result |-> re.value, built |-> TRUE]

\* XavierInitializerTaskDescriptor(Result * re, Parameter * pa):
\* engine = pa->engine.get(); layer = pa->layer.get();
\* result = re->get(initializers::value).get().
XavierInitializerTaskDescriptor(re, pa) ==
    [engine |-> pa.engine, layer |-> pa.layer, result |-> re.value,
     built |-> TRUE]

----------------------------------------------------------------------------
(* State machine of the Batch instances *)

\* The record of a call: the operation, the instance it ran on, the Status
\* it returned, whether the container's kernel was invoked and on what, and
\* whether the call is a compute() that directly follows a successful
\* compute() on the same instance.
Ret(op, inst, status, kernel) ==
    [op |-> op, inst |-> inst, status |-> status, kernel |-> kernel,
     again |-> /\ op = "compute"
               /\ ret.op = "compute"
               /\ ret.inst = inst
               /\ ret.status = "OK"]

InitBatch ==
    /\ algs = <<>>
    /\ heap = <<>>
    /\ origin = <<>>
    /\ ret = [op |-> "none", inst |-> 0, status |-> "OK",
              kernel |-> "notInvoked", again |-> FALSE]
    /\ calls = 0
    /\ envCpu \in CpuTiers

InitTD ==
    /\ xpar = [engine |-> NULL, layer |-> NULL]
    /\ xres = [value |-> NULL]
    /\ td = NoDescriptor

Init == InitBatch /\ InitTD

\* One more step is taken.
Call ==
    /\ calls < MaxCalls
    /\ calls' = calls + 1

\* Batch<fp, method> alg;
Construct(t) ==
    /\ Call
    /\ Len(algs) < MaxInst
    /\ Len(heap) < MaxRes
    /\ LET self == Len(algs) + 1
           newRes == Len(heap) + 1
       IN /\ heap' = Append(heap, EmptyResult("alg"))
          /\ algs' = Append(algs, Batch_ctor(t, self, newRes, envCpu))
          /\ origin' = Append(origin, 0)
          /\ ret' = Ret("construct", self, "OK", "notInvoked")
    /\ UNCHANGED <<envCpu, tdVars>>

\* alg.clone(): cloneImpl() { return new Batch<fp, method>(*this); }
Clone(i) ==
    /\ Call
    /\ i \in 1 .. Len(algs)
    /\ Len(algs) < MaxInst
    /\ Len(heap) < MaxRes
    /\ LET self == Len(algs) + 1
           newRes == Len(heap) + 1
       IN /\ heap' = Append(heap, EmptyResult("alg"))
          /\ algs' = Append(algs, Batch_copy(algs[i], self, newRes, envCpu))
          /\ origin' = Append(origin, i)
          /\ ret' = Ret("clone", i, "OK", "notInvoked")
    /\ UNCHANGED <<envCpu, tdVars>>

\* alg.input.set(data, table)
SetInput(i, d) ==
    /\ Call
    /\ i \in 1 .. Len(algs)
    /\ algs' = [algs EXCEPT ![i].input.data = d]
    /\ ret' = Ret("setInput", i, "OK", "notInvoked")
    /\ UNCHANGED <<heap, origin, envCpu, tdVars>>

\* alg.parameter.resultsToCompute = v
SetParameter(i, v) ==
    /\ Call
    /\ i \in 1 .. Len(algs)
    /\ algs' = [algs EXCEPT ![i].parameter.resultsToCompute = v]
    /\ ret' = Ret("setParameter", i, "OK", "notInvoked")
    /\ UNCHANGED <<heap, origin, envCpu, tdVars>>

\* The caller creates a Result of its own: ResultPtr(new Result()).
NewResult ==
    /\ Call
    /\ Len(heap) < MaxRes
    /\ heap' = Append(heap, EmptyResult("user"))
    /\ UNCHANGED <<algs, origin, ret, envCpu, tdVars>>

\* alg.setResult(r), r empty or any Result the caller holds
SetResult(i, r) ==
    /\ Call
    /\ i \in 1 .. Len(algs)
    /\ r \in 0 .. Len(heap)
    /\ LET s == setResult(algs[i], r)
       IN /\ algs' = [algs EXCEPT ![i] = s.alg]
          /\ ret' = Ret("setResult", i, s.status, "notInvoked")
    /\ UNCHANGED <<heap, origin, envCpu, tdVars>>

\* alg.compute(), while the environment can (mem) or cannot materialize
\* storage
ComputeIn(i, mem) ==
    /\ Call
    /\ i \in 1 .. Len(algs)
    /\ LET c == Batch_compute(algs, heap, i, mem)
       IN /\ algs' = c.algs
          /\ heap' = c.heap
          /\ ret' = Ret("compute", i, c.status, c.kernel)
    /\ UNCHANGED <<origin, envCpu, tdVars>>

Compute(i) == \E mem \in BOOLEAN : ComputeIn(i, mem)

\* The environment's CPU tier is set to another tier.
EnvSetCpu(c) ==
    /\ Call
    /\ c # envCpu
    /\ envCpu' = c
    /\ UNCHANGED <<algs, heap, origin, ret, tdVars>>

Next ==
    \/ \E t \in Types : Construct(t)
    \/ \E i \in 1 .. MaxInst : Clone(i)
    \/ \E i \in 1 .. MaxInst, d \in Data \cup {NULL} : SetInput(i, d)
    \/ \E i \in 1 .. MaxInst, v \in ResultsToCompute : SetParameter(i, v)
    \/ NewResult
    \/ \E i \in 1 .. MaxInst, r \in 0 .. MaxRes : SetResult(i, r)
    \/ \E i \in 1 .. MaxInst : Compute(i)
    \/ \E c \in CpuTiers : EnvSetCpu(c)

Spec == Init /\ [][Next]_vars

----------------------------------------------------------------------------
(* State machine of the task descriptor *)

Objects == 1 .. MaxObj

\* parameter.engine = e
TD_SetEngine(e) ==
    /\ xpar' = [xpar EXCEPT !.engine = e]
    /\ UNCHANGED <<xres, td, batchVars>>

\* parameter.layer = l
TD_SetLayer(l) ==
    /\ xpar' = [xpar EXCEPT !.layer = l]
    /\ UNCHANGED <<xres, td, batchVars>>

\* result.set(initializers::value, tensor)
TD_SetValue(v) ==
    /\ xres' = [xres EXCEPT !.value = v]
    /\ UNCHANGED <<xpar, td, batchVars>>

\* XavierInitializerTaskDescriptor desc(&result, &parameter)
TD_Build ==
    /\ td' = XavierInitializerTaskDescriptor(xres, xpar)
    /\ UNCHANGED <<xpar, xres, batchVars>>

NextTD ==
    \/ \E e \in Objects \cup {NULL} : TD_SetEngine(e)
    \/ \E l \in Objects \cup {NULL} : TD_SetLayer(l)
    \/ \E v \in Objects \cup {NULL} : TD_SetValue(v)
    \/ TD_Build

SpecTD == Init /\ [][NextTD]_vars

----------------------------------------------------------------------------
(* Properties *)

Insts == 1 .. Len(algs)

\* The Result instance i holds.
ResultOf(i) == heap[getResult(algs[i])]

\* The shape the Result of instance a must have for a's configuration.
ShapeFor(a) == NeededShape(a.input, a.parameter, a.fp, a.method)

\* C1: setResult with an empty handle returns a Status carrying
\* ErrorNullResult and leaves the instance as it was: getResult() returns the
\* handle it returned before, and the cached pointer _res is not modified.
C1_SetResultNullFails ==
    [][\A i \in Insts :
          SetResult(i, NULL) =>
              /\ ret'.status = "ErrorNullResult"
              /\ getResult(algs'[i]) = getResult(algs[i])
              /\ algs'[i]._res = algs[i]._res
              /\ algs' = algs
              /\ heap' = heap]_vars

\* A setResult(empty) has just failed on an instance whose cached pointer was
\* set.
C1_Witness ==
    /\ ret.op = "setResult"
    /\ ret.status = "ErrorNullResult"
    /\ algs[ret.inst]._res # NULL
    /\ algs[ret.inst]._res = getResult(algs[ret.inst])

\* C2: clone() yields an instance whose Result is a brand-new, empty Result
\* (nothing allocated, nothing written) held under a handle different from
\* the source's, whatever the state of the source; the source's handle and
\* the content of the source's Result are not changed.
C2_CloneHasFreshEmptyResult ==
    [][\A i \in Insts :
          Clone(i) =>
              LET c == algs'[Len(algs')]
              IN /\ getResult(c) \notin 1 .. Len(heap)
                 /\ getResult(c) \in 1 .. Len(heap')
                 /\ heap'[getResult(c)].shape = NoShape
                 /\ heap'[getResult(c)].value = NoValue
                 /\ getResult(c) # getResult(algs[i])
                 /\ algs'[i] = algs[i]
                 /\ heap'[getResult(algs[i])] = heap[getResult(algs[i])]]_vars

\* An instance has just been cloned right after a successful compute(): the
\* source's Result is populated, the clone's is empty.
C2_Witness ==
    /\ ret.op = "clone"
    /\ ResultOf(ret.inst).value # NoValue
    /\ origin[Len(algs)] = ret.inst
    /\ ResultOf(Len(algs)).shape = NoShape
    /\ ResultOf(Len(algs)).value = NoValue

C5_ComputeTwiceIdempotent ==
    [][\A i \in Insts :
          (/\ ret.op = "compute"
           /\ ret.inst = i
           /\ ret.status = "OK"
           /\ Compute(i)) =>
              /\ ret'.status = "OK"
              /\ getResult(algs'[i]) = getResult(algs[i])
              /\ heap'[getResult(algs[i])] = heap[getResult(algs[i])]
              /\ algs' = algs
              /\ heap' = heap]_vars

\* The second of two compute() calls in a row has returned.
C5_Witness ==
    /\ ret.again
    /\ ret.status = "OK"
    /\ ResultOf(ret.inst).value # NoValue

\* C6: the Result handle of an instance changes only in a successful
\* setResult on that instance, which makes it the handle it was given; so
\* getResult() returns that handle through every compute(), clone() and
\* failing setResult(empty) that follows.
C6_HandleChangesOnlyInSetResult ==
    [][\A i \in Insts :
          /\ getResult(algs'[i]) # getResult(algs[i]) =>
                 /\ ret'.op = "setResult"
                 /\ ret'.inst = i
                 /\ ret'.status = "OK"
          /\ \A r \in 1 .. Len(heap) :
                 SetResult(i, r) =>
                     /\ ret'.status = "OK"
                     /\ getResult(algs'[i]) = r]_vars

\* A compute() whose allocateResult ran and failed has followed a
\* successful setResult(r): the instance still holds r.
C6_Witness ==
    /\ ret.op = "compute"
    /\ ret.status = "AllocationFailure"
    /\ ResultOf(ret.inst).by = "user"
    /\ algs[ret.inst]._res = getResult(algs[ret.inst])

\* C7: a clone's Input and Parameter equal the source's at the moment of the
\* call (the Input slots refer to the same data objects), and the instances
\* are independent afterwards: the Input of an instance changes only when
\* one of its own slots is set, its Parameter only when one of its own
\* fields is assigned.
C7_CloneCopiesInputAndParameter ==
    [][/\ \A i \in Insts :
              Clone(i) =>
                  /\ algs'[Len(algs')].input = algs[i].input
                  /\ algs'[Len(algs')].parameter = algs[i].parameter
       /\ \A j \in Insts :
              /\ algs'[j].input # algs[j].input =>
                     (ret'.op = "setInput" /\ ret'.inst = j)
              /\ algs'[j].parameter # algs[j].parameter =>
                     (ret'.op = "setParameter" /\ ret'.inst = j)]_vars

\* A Parameter field of the source has been assigned after the clone: the
\* clone keeps the value it copied, and still shares the data table.
C7_Witness ==
    \E j \in Insts :
        /\ origin[j] # 0
        /\ ret.op = "setParameter"
        /\ ret.inst = origin[j]
        /\ algs[j].parameter # algs[origin[j]].parameter
        /\ algs[j].input.data # NULL
        /\ algs[j].input = algs[origin[j]].input

\* C8: the container of an instance is created when the instance is, for the
\* instance's precision and method and the CPU tier the environment then
\* has, and no call changes it afterwards; a clone gets a container of its
\* own with the source's precision and method.
C8_ContainerFixedAtConstruction ==
    [][/\ \A i \in Insts : algs'[i]._ac = algs[i]._ac
       /\ \A j \in (1 .. Len(algs')) \ Insts :
              /\ algs'[j]._ac.fp = algs'[j].fp
              /\ algs'[j]._ac.method = getMethod(algs'[j])
              /\ algs'[j]._ac.cpu = envCpu
              /\ \A i \in Insts : algs'[j]._ac.id # algs[i]._ac.id
       /\ \A i \in Insts :
              Clone(i) =>
                  /\ algs'[Len(algs')]._ac # algs[i]._ac
                  /\ algs'[Len(algs')]._ac.fp = algs[i]._ac.fp
                  /\ algs'[Len(algs')]._ac.method = algs[i]._ac.method]_vars

\* A clone was made after the environment's CPU tier changed, and a
\* compute() has run since: the two containers differ in tier, and each is
\* what it was.
C8_Witness ==
    \E j \in Insts :
        /\ origin[j] # 0
        /\ algs[j]._ac.id # algs[origin[j]]._ac.id
        /\ algs[j]._ac.fp = algs[origin[j]]._ac.fp
        /\ algs[j]._ac.cpu # algs[origin[j]]._ac.cpu
        /\ ret.op = "compute"

\* C9: a task descriptor built from a Result and a Parameter holds the
\* engine, the layer and the `value` tensor that the Parameter and the Result
\* hold at that moment (the same objects; null where the Parameter or the
\* Result holds none), and building it changes neither of them.
C9_DescriptorReferencesSameObjects ==
    [][TD_Build =>
          /\ td'.engine = xpar.engine
          /\ td'.layer = xpar.layer
          /\ td'.result = xres.value
          /\ xpar' = xpar
          /\ xres' = xres]_vars

\* A descriptor has been built from a Parameter with an engine and no layer.
C9_Witness ==
    /\ td.built
    /\ td.engine # NULL
    /\ td.engine = xpar.engine
    /\ td.layer = NULL
    /\ xpar.layer = NULL
    /\ td.result # NULL
    /\ td.result = xres.value

\* C10: in every state the cached pointers of every instance refer to the
\* instance's own sub-objects: _in to its input, _par to its parameter (what
\* getParameter() returns), and _res is null or the object its _result handle
\* holds.
C10_CachedPointersAreOwn ==
    \A i \in Insts :
        /\ algs[i]._in = i
        /\ algs[i]._par = getParameter(algs[i], i)
        /\ algs[i]._res \in {NULL, getResult(algs[i])}
        /\ getResult(algs[i]) \in 1 .. Len(heap)

\* A clone of a clone exists, and an instance has had its Result replaced by
\* setResult.
C10_Witness ==
    /\ \E j \in Insts : origin[j] # 0 /\ origin[origin[j]] # 0
    /\ \E i \in Insts :
           /\ algs[i]._res # NULL
           /\ heap[algs[i]._res].by = "user"

====
